---- MODULE Spec2Model ----
(***************************************************************************)
(* A model of chess.py: the position codec (parse_fen), the attack oracle  *)
(* (is_square_attacked), the move generators, make_move, in_check and the  *)
(* event handling of main's game loop.                                     *)
(*                                                                         *)
(* A board value is a sequence of 8 rows, each a sequence of 8 one-letter  *)
(* strings; the code's 0-based board[r][c] is At(board, r, c).  Python     *)
(* lists are objects: the heap-level operators (clone_board, make_move,    *)
(* generate_legal_moves) work on a heap of row objects and on boards that  *)
(* are lists of row references, so that aliasing between the caller's     *)
(* board and the callee's copy is something the model can express.         *)
(***************************************************************************)
EXTENDS Integers, Sequences, FiniteSets, TLC

VARIABLES
    board,      \* main: the current position (a board value)
    to_move,    \* main: the side to move, "w" or "b"
    ui,         \* main: the UIState record
    ply,        \* history: moves applied since the last (re)start
    heap,       \* call harness: the row objects alive around a call
    op,         \* call harness: the function that was called, "none" before
    arg,        \* call harness: its arguments
    res,        \* call harness: what it returned
    fen         \* call harness: the position string handed to parse_fen

vars == <<board, to_move, ui, ply, heap, op, arg, res, fen>>

----------------------------------------------------------------------------
(* Constants of the program *)

TILE_SIZE == 72
BOARD_SIZE == 8

START_FEN ==
    << "r","n","b","q","k","b","n","r","/",
       "p","p","p","p","p","p","p","p","/",
       "8","/","8","/","8","/","8","/",
       "P","P","P","P","P","P","P","P","/",
       "R","N","B","Q","K","B","N","R"," ","w" >>

None == "None"

----------------------------------------------------------------------------
(* str methods, on the one-letter strings the program handles *)

UpperLetters == {"P", "N", "B", "R", "Q", "K", "X", "W"}
Digits == {"0", "1", "2", "3", "4", "5", "6", "7", "8", "9"}

isupper(ch) == ch \in UpperLetters

isdigit(ch) == ch \in Digits

upper(ch) ==
    CASE ch = "p" -> "P" [] ch = "n" -> "N" [] ch = "b" -> "B"
      [] ch = "r" -> "R" [] ch = "q" -> "Q" [] ch = "k" -> "K"
      [] ch = "x" -> "X" [] ch = "w" -> "W"
      [] OTHER -> ch

int(ch) ==
    CASE ch = "0" -> 0 [] ch = "1" -> 1 [] ch = "2" -> 2 [] ch = "3" -> 3
      [] ch = "4" -> 4 [] ch = "5" -> 5 [] ch = "6" -> 6 [] ch = "7" -> 7
      [] ch = "8" -> 8 [] ch = "9" -> 9

----------------------------------------------------------------------------
(* Boards *)

EmptyRow == [c \in 1..BOARD_SIZE |-> "."]
EmptyBoard == [r \in 1..BOARD_SIZE |-> EmptyRow]

At(b, r, c) == b[r + 1][c + 1]

in_bounds(r, c) == 0 <= r /\ r < BOARD_SIZE /\ 0 <= c /\ c < BOARD_SIZE

is_white(piece) == isupper(piece)

side_of(piece) ==
    IF piece = "." THEN None
    ELSE IF is_white(piece) THEN "w" ELSE "b"

king_position(b, side) ==
    LET target == IF side = "w" THEN "K" ELSE "k"
        found == {i \in 0..(BOARD_SIZE * BOARD_SIZE - 1) :
                     At(b, i \div BOARD_SIZE, i % BOARD_SIZE) = target}
    IN  IF found = {} THEN <<-1, -1>>
        ELSE LET first == CHOOSE i \in found : \A j \in found : i <= j
             IN  <<first \div BOARD_SIZE, first % BOARD_SIZE>>

----------------------------------------------------------------------------
(* is_square_attacked *)

KnightOffsets ==
    << <<-2, -1>>, <<-2, 1>>, <<-1, -2>>, <<-1, 2>>,
       <<1, -2>>, <<1, 2>>, <<2, -1>>, <<2, 1>> >>
DiagonalDirs == << <<-1, -1>>, <<-1, 1>>, <<1, -1>>, <<1, 1>> >>
OrthogonalDirs == << <<-1, 0>>, <<1, 0>>, <<0, -1>>, <<0, 1>> >>
KingOffsets ==
    << <<-1, -1>>, <<-1, 0>>, <<-1, 1>>, <<0, -1>>,
       <<0, 1>>, <<1, -1>>, <<1, 0>>, <<1, 1>> >>

Range(s) == {s[i] : i \in 1..Len(s)}

\* the while loop of one ray: the first occupied square decides
RECURSIVE RayAttack(_, _, _, _, _, _)
RayAttack(b, rr, cc, dr, dc, attackers) ==
    IF ~in_bounds(rr, cc) THEN FALSE
    ELSE LET p == At(b, rr, cc)
         IN  IF p # "." THEN p \in attackers
             ELSE RayAttack(b, rr + dr, cc + dc, dr, dc, attackers)

PawnAttackOffsets(by_side) ==
    IF by_side = "w" THEN << <<-1, -1>>, <<-1, 1>> >>
    ELSE << <<1, -1>>, <<1, 1>> >>

is_square_attacked(b, r, c, by_side) ==
    \/ \E d \in Range(PawnAttackOffsets(by_side)) :
          /\ in_bounds(r + d[1], c + d[2])
          /\ At(b, r + d[1], c + d[2]) = (IF by_side = "w" THEN "P" ELSE "p")
    \/ \E d \in Range(KnightOffsets) :
          /\ in_bounds(r + d[1], c + d[2])
          /\ LET p == At(b, r + d[1], c + d[2])
             IN  (by_side = "w" /\ p = "N") \/ (by_side = "b" /\ p = "n")
    \/ \E d \in Range(DiagonalDirs) :
          RayAttack(b, r + d[1], c + d[2], d[1], d[2],
                    IF by_side = "w" THEN {"B", "Q"}
                    ELSE IF by_side = "b" THEN {"b", "q"} ELSE {})
    \/ \E d \in Range(OrthogonalDirs) :
          RayAttack(b, r + d[1], c + d[2], d[1], d[2],
                    IF by_side = "w" THEN {"R", "Q"}
                    ELSE IF by_side = "b" THEN {"r", "q"} ELSE {})
    \/ \E d \in Range(KingOffsets) :
          /\ in_bounds(r + d[1], c + d[2])
          /\ LET p == At(b, r + d[1], c + d[2])
             IN  (by_side = "w" /\ p = "K") \/ (by_side = "b" /\ p = "k")

----------------------------------------------------------------------------
(* generate_pseudo_legal_moves: a sequence of moves <<r1, c1, r2, c2>> *)

\* the offset loops of the knight and the king
OffsetMoves(b, side, r, c, offsets) ==
    SelectSeq([i \in 1..Len(offsets) |->
                  <<r, c, r + offsets[i][1], c + offsets[i][2]>>],
              LAMBDA m : in_bounds(m[3], m[4])
                         /\ side_of(At(b, m[3], m[4])) # side)

\* RayMoves with the break after a capture forgotten: the ray goes on through
\* an opposing piece
RECURSIVE RayMovesNoBreak(_, _, _, _, _, _, _, _)
RayMovesNoBreak(b, side, r, c, rr, cc, dr, dc) ==
    IF ~in_bounds(rr, cc) THEN <<>>
    ELSE IF At(b, rr, cc) = "." \/ side_of(At(b, rr, cc)) # side
         THEN <<(<<r, c, rr, cc>>)>>
              \o RayMovesNoBreak(b, side, r, c, rr + dr, cc + dc, dr, dc)
         ELSE <<>>

\* the while loop of one ray of a bishop, rook or queen
RECURSIVE RayMoves(_, _, _, _, _, _, _, _)
RayMoves(b, side, r, c, rr, cc, dr, dc) ==
    IF ~in_bounds(rr, cc) THEN <<>>
    ELSE IF At(b, rr, cc) = "."
         THEN <<(<<r, c, rr, cc>>)>>
              \o RayMoves(b, side, r, c, rr + dr, cc + dc, dr, dc)
         ELSE IF side_of(At(b, rr, cc)) # side
              THEN <<(<<r, c, rr, cc>>)>>
              ELSE <<>>

RECURSIVE SlideMoves(_, _, _, _, _, _)
SlideMoves(b, side, r, c, dirs, i) ==
    IF i > Len(dirs) THEN <<>>
    ELSE RayMoves(b, side, r, c, r + dirs[i][1], c + dirs[i][2],
                  dirs[i][1], dirs[i][2])
         \o SlideMoves(b, side, r, c, dirs, i + 1)

SlideDirs(p) ==
    (IF upper(p) \in {"B", "Q"} THEN DiagonalDirs ELSE <<>>)
    \o (IF upper(p) \in {"R", "Q"} THEN OrthogonalDirs ELSE <<>>)

\* PawnMoves with the two starting rows exchanged
PawnMovesRowsSwapped(b, side, r, c) ==
    LET forward == IF side = "w" THEN -1 ELSE 1
        pawn_row_start == IF side = "w" THEN 1 ELSE 6
        r1 == r + forward
        r2 == r + 2 * forward
        push == IF in_bounds(r1, c) /\ At(b, r1, c) = "."
                THEN <<(<<r, c, r1, c>>)>>
                     \o (IF r = pawn_row_start /\ in_bounds(r2, c)
                            /\ At(b, r2, c) = "."
                         THEN <<(<<r, c, r2, c>>)>> ELSE <<>>)
                ELSE <<>>
        capture(dc) == IF /\ in_bounds(r1, c + dc)
                          /\ At(b, r1, c + dc) # "."
                          /\ side_of(At(b, r1, c + dc)) # side
                       THEN <<(<<r, c, r1, c + dc>>)>> ELSE <<>>
    IN  push \o capture(-1) \o capture(1)

PawnMoves(b, side, r, c) ==
    LET forward == IF side = "w" THEN -1 ELSE 1
        pawn_row_start == IF side = "w" THEN 6 ELSE 1
        r1 == r + forward
        r2 == r + 2 * forward
        push == IF in_bounds(r1, c) /\ At(b, r1, c) = "."
                THEN <<(<<r, c, r1, c>>)>>
                     \o (IF r = pawn_row_start /\ At(b, r2, c) = "."
                         THEN <<(<<r, c, r2, c>>)>> ELSE <<>>)
                ELSE <<>>
        capture(dc) == IF /\ in_bounds(r1, c + dc)
                          /\ At(b, r1, c + dc) # "."
                          /\ side_of(At(b, r1, c + dc)) # side
                       THEN <<(<<r, c, r1, c + dc>>)>> ELSE <<>>
    IN  push \o capture(-1) \o capture(1)

\* the body of the loop over the squares, for the square (r, c)
SquareMoves(b, side, r, c) ==
    LET p == At(b, r, c)
    IN  IF p = "." \/ side_of(p) # side THEN <<>>
        ELSE IF upper(p) = "P" THEN PawnMoves(b, side, r, c)
        ELSE IF upper(p) = "N" THEN OffsetMoves(b, side, r, c, KnightOffsets)
        ELSE IF upper(p) \in {"B", "R", "Q"}
             THEN SlideMoves(b, side, r, c, SlideDirs(p), 1)
        ELSE IF upper(p) = "K" THEN OffsetMoves(b, side, r, c, KingOffsets)
        ELSE <<>>

\* the loop over the squares lo..hi in row-major order (halved likewise)
RECURSIVE ScanSquares(_, _, _, _)
ScanSquares(b, side, lo, hi) ==
    IF lo = hi THEN SquareMoves(b, side, lo \div BOARD_SIZE, lo % BOARD_SIZE)
    ELSE ScanSquares(b, side, lo, (lo + hi) \div 2)
         \o ScanSquares(b, side, (lo + hi) \div 2 + 1, hi)

generate_pseudo_legal_moves(b, side) ==
    ScanSquares(b, side, 0, BOARD_SIZE * BOARD_SIZE - 1)

----------------------------------------------------------------------------
(* The heap of row objects; clone_board and make_move on it *)

\* a board object is a list of 8 references into the heap (a sequence of rows)
InputRef == [i \in 1..BOARD_SIZE |-> i]

AllocBoard(b) == b

Deref(h, ref) == [i \in 1..BOARD_SIZE |-> h[ref[i]]]

\* clone_board as board[:], a shallow copy: a new list of the same row objects
clone_board_shallow(h, ref) == [heap |-> h, ref |-> ref]

\* [row[:] for row in board]: eight fresh row objects, each a copy
clone_board(h, ref) ==
    [heap |-> h \o [i \in 1..BOARD_SIZE |-> h[ref[i]]],
     ref  |-> [i \in 1..BOARD_SIZE |-> Len(h) + i]]

\* newb[r][c] = piece
SetSquare(h, ref, r, c, piece) ==
    [h EXCEPT ![ref[r + 1]][c + 1] = piece]

make_move(h, ref, move) ==
    LET r1 == move[1]
        c1 == move[2]
        r2 == move[3]
        c2 == move[4]
        cl == clone_board(h, ref)
        newb == cl.ref
        piece0 == cl.heap[newb[r1 + 1]][c1 + 1]
        h1 == SetSquare(cl.heap, newb, r1, c1, ".")
        piece == IF upper(piece0) = "P" /\ (r2 = 0 \/ r2 = BOARD_SIZE - 1)
                 THEN (IF is_white(piece0) THEN "Q" ELSE "q")
                 ELSE piece0
    IN  [heap |-> SetSquare(h1, newb, r2, c2, piece), ref |-> newb]

\* make_move as a function of board values: the board it returns
MakeMove(b, move) ==
    LET m == make_move(AllocBoard(b), InputRef, move)
    IN  Deref(m.heap, m.ref)

----------------------------------------------------------------------------
(* in_check and generate_legal_moves *)

\* in_check without the guard for a missing king
in_check_unguarded(b, side) ==
    LET k == king_position(b, side)
        opponent == IF side = "w" THEN "b" ELSE "w"
    IN  is_square_attacked(b, k[1], k[2], opponent)

in_check(b, side) ==
    LET k == king_position(b, side)
        opponent == IF side = "w" THEN "b" ELSE "w"
    IN  IF k[1] = -1 THEN TRUE
        ELSE is_square_attacked(b, k[1], k[2], opponent)

\* the loop over the pseudo-legal moves pseudo[lo..hi]: each is tried with
\* make_move on the caller's board object, the heap threaded through the calls
\* in list order (the range is halved to keep the evaluation shallow)
RECURSIVE LegalLoop(_, _, _, _, _, _)
LegalLoop(h, ref, side, pseudo, lo, hi) ==
    IF lo > hi THEN [legal |-> <<>>, heap |-> h]
    ELSE IF lo = hi
    THEN LET nb == make_move(h, ref, pseudo[lo])
         IN  [legal |-> IF ~in_check(Deref(nb.heap, nb.ref), side)
                        THEN <<pseudo[lo]>> ELSE <<>>,
              heap |-> nb.heap]
    ELSE LET mid == (lo + hi) \div 2
             left == LegalLoop(h, ref, side, pseudo, lo, mid)
             right == LegalLoop(left.heap, ref, side, pseudo, mid + 1, hi)
         IN  [legal |-> left.legal \o right.legal, heap |-> right.heap]

generate_legal_moves(h, ref, side) ==
    LET moves == generate_pseudo_legal_moves(Deref(h, ref), side)
    IN  LegalLoop(h, ref, side, moves, 1, Len(moves))

\* generate_legal_moves as a function of board values: the list it returns
LegalMoves(b, side) == generate_legal_moves(AllocBoard(b), InputRef, side).legal

\* main, lines 410-411: the end-of-game message of a frame ("" when none),
\* legal_any being what generate_legal_moves(board, to_move) returned
game_end_message(b, side, legal_any) ==
    IF legal_any = <<>>
    THEN (IF in_check(b, side) THEN "Checkmate" ELSE "Stalemate")
    ELSE ""

----------------------------------------------------------------------------
(* parse_fen, on a position string given as its sequence of characters *)

\* str.split(sep): the fields between the separators, empty ones kept
RECURSIVE SplitSep(_, _)
SplitSep(s, sep) ==
    IF \A i \in 1..Len(s) : s[i] # sep THEN <<s>>
    ELSE LET i == CHOOSE k \in 1..Len(s) :
                      s[k] = sep /\ \A j \in 1..(k - 1) : s[j] # sep
         IN  <<SubSeq(s, 1, i - 1)>> \o SplitSep(SubSeq(s, i + 1, Len(s)), sep)

\* str.split(): the fields between runs of blanks, no empty field
split(s) == SelectSeq(SplitSep(s, " "), LAMBDA t : t # <<>>)

\* the string of a field (the fields met as side tokens are one letter long)
StrOf(t) == IF Len(t) = 1 THEN t[1] ELSE t

\* the loop over the characters of one rank; board[r][c] = ch raises
\* IndexError when r or c is past the grid
RECURSIVE ParseRank(_, _, _, _, _)
ParseRank(b, r, row, i, c) ==
    IF i > Len(row) THEN [ok |-> TRUE, board |-> b]
    ELSE IF isdigit(row[i]) THEN ParseRank(b, r, row, i + 1, c + int(row[i]))
    ELSE IF r >= BOARD_SIZE \/ c >= BOARD_SIZE THEN [ok |-> FALSE, board |-> b]
    ELSE ParseRank([b EXCEPT ![r + 1][c + 1] = row[i]], r, row, i + 1, c + 1)

RECURSIVE ParseRanks(_, _, _)
ParseRanks(b, board_rows, r) ==
    IF r >= Len(board_rows) THEN [ok |-> TRUE, board |-> b]
    ELSE LET one == ParseRank(b, r, board_rows[r + 1], 1, 0)
         IN  IF one.ok THEN ParseRanks(one.board, board_rows, r + 1) ELSE one

\* [status |-> "ok", board, to_move], or the exception the call ends with
parse_fen(f) ==
    LET parts == split(f)
    IN  IF Len(parts) = 0
        THEN [status |-> "IndexError", board |-> <<>>, to_move |-> None]
        ELSE LET board_rows == SplitSep(parts[1], "/")
                 side == IF Len(parts) > 1 THEN StrOf(parts[2]) ELSE "w"
                 p == ParseRanks(EmptyBoard, board_rows, 0)
             IN  IF p.ok
                 THEN [status |-> "ok", board |-> p.board, to_move |-> side]
                 ELSE [status |-> "IndexError", board |-> <<>>, to_move |-> None]

----------------------------------------------------------------------------
(* main: the state of the game loop and its event handlers *)

\* the moves of one game in Spec, and in SpecLong
MaxPly == 3
MaxPlyLong == 6

NoSquare == <<>>
NoMove == <<>>

UIState(selected, legal_moves_from_selected) ==
    [selected |-> selected,
     legal_moves_from_selected |-> legal_moves_from_selected,
     dragging |-> FALSE,
     drag_offset |-> <<0, 0>>]

square_at_pixel(x, y) ==
    IF /\ 0 <= x /\ x < TILE_SIZE * BOARD_SIZE
       /\ 0 <= y /\ y < TILE_SIZE * BOARD_SIZE
    THEN <<y \div TILE_SIZE, x \div TILE_SIZE>>
    ELSE NoSquare

\* the mouse positions of the modelled events: the centre of each square of
\* a set of squares, and one point of the status bar
PixelsOf(squares) ==
    {<<sq[2] * TILE_SIZE + TILE_SIZE \div 2,
       sq[1] * TILE_SIZE + TILE_SIZE \div 2>> : sq \in squares}
    \cup {<<TILE_SIZE \div 2, TILE_SIZE * BOARD_SIZE + TILE_SIZE \div 2>>}

\* Spec: the player clicks on the d and e files
ClickSquares == {<<r, c>> : r \in 0..(BOARD_SIZE - 1), c \in {3, 4}}
ClickPixels == PixelsOf(ClickSquares)

\* SpecLong: longer games, clicked on the d and e files below Black's back rank
LongSquares == {<<r, c>> : r \in 1..(BOARD_SIZE - 1), c \in {3, 4}}
LongPixels == PixelsOf(LongSquares)


Idle == UNCHANGED <<heap, op, arg, res, fen>>

Start == parse_fen(START_FEN)

Init ==
    /\ board = Start.board
    /\ to_move = Start.to_move
    /\ ui = UIState(NoSquare, <<>>)
    /\ ply = 0
    /\ heap = <<>>
    /\ op = "none"
    /\ arg = <<>>
    /\ res = <<>>
    /\ fen = START_FEN

\* KeyR with the UIState left as it is
KeyRKeepsSelection ==
    /\ board' = Start.board
    /\ to_move' = Start.to_move
    /\ ply' = 0
    /\ UNCHANGED ui
    /\ Idle

\* KEYDOWN, K_r
KeyR ==
    /\ board' = Start.board
    /\ to_move' = Start.to_move
    /\ ui' = UIState(NoSquare, <<>>)
    /\ ply' = 0
    /\ Idle

\* MOUSEBUTTONDOWN, button 1, at pixel (x, y); legal is what
\* generate_legal_moves(board, to_move) returns at that moment
LeftPressAt(x, y, legal) ==
    LET pos == square_at_pixel(x, y)
    IN  /\ IF pos # NoSquare
           THEN LET piece == At(board, pos[1], pos[2])
                IN  IF piece # "." /\ side_of(piece) = to_move
                    THEN ui' = [selected |-> pos,
                                dragging |-> TRUE,
                                drag_offset |->
                                    <<x - (pos[2] * TILE_SIZE + TILE_SIZE \div 2),
                                      y - (pos[1] * TILE_SIZE + TILE_SIZE \div 2)>>,
                                legal_moves_from_selected |->
                                    SelectSeq(legal, LAMBDA mv : <<mv[1], mv[2]>> = pos)]
                    ELSE ui' = [ui EXCEPT !.selected = NoSquare,
                                          !.legal_moves_from_selected = <<>>]
           ELSE UNCHANGED ui
        /\ UNCHANGED <<board, to_move, ply>>
        /\ Idle

LeftPress(pixels) ==
    \E legal \in {LegalMoves(board, to_move)} :
        \E p \in pixels : LeftPressAt(p[1], p[2], legal)

\* MOUSEBUTTONDOWN, button 3
RightPress ==
    /\ ui' = [ui EXCEPT !.selected = NoSquare,
                        !.legal_moves_from_selected = <<>>,
                        !.dragging = FALSE]
    /\ UNCHANGED <<board, to_move, ply>>
    /\ Idle

\* MOUSEBUTTONUP, button 1, at pixel (x, y); a release that would apply move
\* number maxPly + 1 is outside the model
LeftReleaseAt(x, y, maxPly) ==
    LET dest == square_at_pixel(x, y)
        hits == SelectSeq(ui.legal_moves_from_selected,
                          LAMBDA mv : <<mv[3], mv[4]>> = dest)
        chosen == IF dest # NoSquare /\ hits # <<>> THEN hits[1] ELSE NoMove
    IN  /\ IF ui.selected # NoSquare
           THEN /\ IF chosen # NoMove
                   THEN /\ ply < maxPly
                        /\ board' = MakeMove(board, chosen)
                        /\ to_move' = (IF to_move = "w" THEN "b" ELSE "w")
                        /\ ply' = ply + 1
                   ELSE UNCHANGED <<board, to_move, ply>>
                /\ ui' = [ui EXCEPT !.selected = NoSquare,
                                    !.legal_moves_from_selected = <<>>,
                                    !.dragging = FALSE]
           ELSE UNCHANGED <<board, to_move, ply, ui>>
        /\ Idle

LeftRelease(pixels, maxPly) ==
    \E p \in pixels : LeftReleaseAt(p[1], p[2], maxPly)

Next ==
    \/ KeyR
    \/ LeftPress(ClickPixels)
    \/ RightPress
    \/ LeftRelease(ClickPixels, MaxPly)

Spec == Init /\ [][Next]_vars

NextLong ==
    \/ KeyR
    \/ LeftPress(LongPixels)
    \/ RightPress
    \/ LeftRelease(LongPixels, MaxPlyLong)

SpecLong == Init /\ [][NextLong]_vars

----------------------------------------------------------------------------
(* Calls of the functions on boards drawn from a bounded set *)

\* the boards hold at most two pieces, on the files 0..MaxCol of rows 0..2
MaxCol == 1

Pieces == {"P", "N", "B", "R", "Q", "K", "p", "n", "b", "r", "q", "k"}
Sides == {"w", "b"}

TestSquares == {<<r, c>> : r \in 0..2, c \in 0..MaxCol}

Put(b, sq, piece) == [b EXCEPT ![sq[1] + 1][sq[2] + 1] = piece]

TestBoards ==
    {EmptyBoard}
    \cup {Put(EmptyBoard, s1, p1) : s1 \in TestSquares, p1 \in Pieces}
    \cup UNION {{Put(Put(EmptyBoard, s1, p1), s2, p2) :
                    s2 \in TestSquares \ {s1}, p2 \in Pieces} :
                s1 \in TestSquares, p1 \in Pieces}

\* the caller holds the board object InputRef, whose rows are heap[1..8]
InitCalls ==
    /\ board \in TestBoards
    /\ heap = AllocBoard(board)
    /\ op = "none"
    /\ arg = <<>>
    /\ res = <<>>
    /\ to_move = "w"
    /\ ui = UIState(NoSquare, <<>>)
    /\ ply = 0
    /\ fen = <<>>

Rest == UNCHANGED <<board, to_move, ui, ply, fen>>

CallIsSquareAttacked ==
    /\ op = "none"
    /\ \E sq \in TestSquares, by_side \in Sides :
          /\ arg' = <<sq[1], sq[2], by_side>>
          /\ res' = is_square_attacked(Deref(heap, InputRef), sq[1], sq[2], by_side)
    /\ op' = "is_square_attacked"
    /\ UNCHANGED heap
    /\ Rest

CallGeneratePseudoLegalMoves ==
    /\ op = "none"
    /\ \E side \in Sides :
          /\ arg' = <<side>>
          /\ res' = generate_pseudo_legal_moves(Deref(heap, InputRef), side)
    /\ op' = "generate_pseudo_legal_moves"
    /\ UNCHANGED heap
    /\ Rest

\* the move is any in-bounds move from an occupied square to a test square
CallMakeMove ==
    /\ op = "none"
    /\ \E from \in TestSquares, to \in TestSquares :
          /\ At(Deref(heap, InputRef), from[1], from[2]) # "."
          /\ arg' = <<from[1], from[2], to[1], to[2]>>
          /\ LET m == make_move(heap, InputRef, arg')
             IN  heap' = m.heap /\ res' = m.ref
    /\ op' = "make_move"
    /\ Rest

\* the end of a frame of main (lines 406-412) with side to move: the call of
\* generate_legal_moves on the caller's board object, then the message;
\* afterwards heap holds the rows of the caller's board object
FrameEnd ==
    /\ op = "none"
    /\ \E side \in Sides :
          /\ arg' = <<side>>
          /\ \E g \in {generate_legal_moves(heap, InputRef, side)} :
                /\ heap' = [i \in 1..BOARD_SIZE |-> g.heap[InputRef[i]]]
                /\ res' = [legal_any |-> g.legal,
                           msg |-> game_end_message(Deref(g.heap, InputRef),
                                                    side, g.legal)]
    /\ op' = "frame_end"
    /\ Rest

NextCalls ==
    \/ CallIsSquareAttacked
    \/ CallGeneratePseudoLegalMoves
    \/ CallMakeMove
    \/ FrameEnd

SpecCalls == InitCalls /\ [][NextCalls]_vars

----------------------------------------------------------------------------
(* Calls of parse_fen on position strings drawn from a bounded set *)

\* the longest rank descriptor that replaces one of the starting string's
MaxRankLen == 2

FenAlphabet == {"8", "7", "1", "9", "p", "K", "x"}

RankTexts == UNION {[1..n -> FenAlphabet] : n \in 0..MaxRankLen}

StartRanks == SplitSep(split(START_FEN)[1], "/")

RECURSIVE Join(_, _)
Join(fields, sep) ==
    IF Len(fields) = 0 THEN <<>>
    ELSE IF Len(fields) = 1 THEN fields[1]
    ELSE fields[1] \o <<sep>> \o Join(Tail(fields), sep)

SideFields == {<<" ", "w">>, <<" ", "b">>, <<>>}

\* the starting string with one rank replaced, with a ninth rank added, or
\* with its last rank dropped; each with a side field or without
FenInputs ==
    {Join([StartRanks EXCEPT ![i] = t], "/") \o sf :
        i \in 1..Len(StartRanks), t \in RankTexts, sf \in SideFields}
    \cup {Join(Append(StartRanks, t), "/") \o sf : t \in RankTexts, sf \in SideFields}
    \cup {Join(SubSeq(StartRanks, 1, Len(StartRanks) - 1), "/") \o sf :
             sf \in SideFields}

InitFen ==
    /\ fen \in FenInputs
    /\ op = "none"
    /\ arg = <<>>
    /\ res = <<>>
    /\ board = EmptyBoard
    /\ heap = <<>>
    /\ to_move = "w"
    /\ ui = UIState(NoSquare, <<>>)
    /\ ply = 0

CallParseFen ==
    /\ op = "none"
    /\ op' = "parse_fen"
    /\ arg' = fen
    /\ res' = parse_fen(fen)
    /\ UNCHANGED <<board, to_move, ui, ply, heap, fen>>

NextFen == CallParseFen

SpecFen == InitFen /\ [][NextFen]_vars

----------------------------------------------------------------------------
(* The claims *)

Squares == {<<r, c>> : r \in 0..(BOARD_SIZE - 1), c \in 0..(BOARD_SIZE - 1)}

Opponent(side) == IF side = "w" THEN "b" ELSE "w"

KingOf(side) == IF side = "w" THEN "K" ELSE "k"

HasKing(b, side) == \E sq \in Squares : At(b, sq[1], sq[2]) = KingOf(side)

CountOf(b, piece) == Cardinality({sq \in Squares : At(b, sq[1], sq[2]) = piece})

\* the piece of by_side of a kind ("P", "N", ...), as the board writes it
PieceOf(kind, by_side) ==
    IF by_side = "w" THEN kind
    ELSE CASE kind = "P" -> "p" [] kind = "N" -> "n" [] kind = "B" -> "b"
           [] kind = "R" -> "r" [] kind = "Q" -> "q" [] kind = "K" -> "k"

\* the k-th square from (r, c) in direction d holds one of pieces and is the
\* first occupied square of that ray
FirstOnRay(b, r, c, d, k, pieces) ==
    /\ in_bounds(r + k * d[1], c + k * d[2])
    /\ At(b, r + k * d[1], c + k * d[2]) \in pieces
    /\ \A j \in 1..(k - 1) : At(b, r + j * d[1], c + j * d[2]) = "."

\* the rules of attack, kind by kind: White's pawns advance toward row 0 and
\* attack from (r + 1, c - 1) and (r + 1, c + 1), Black's from row r - 1
Attacks(b, r, c, by_side) ==
    \/ \E dc \in {-1, 1} :
          LET pr == IF by_side = "w" THEN r + 1 ELSE r - 1
          IN  in_bounds(pr, c + dc) /\ At(b, pr, c + dc) = PieceOf("P", by_side)
    \/ \E dr \in {-2, -1, 1, 2}, dc \in {-2, -1, 1, 2} :
          /\ dr * dr + dc * dc = 5
          /\ in_bounds(r + dr, c + dc)
          /\ At(b, r + dr, c + dc) = PieceOf("N", by_side)
    \/ \E dr \in {-1, 1}, dc \in {-1, 1}, k \in 1..(BOARD_SIZE - 1) :
          FirstOnRay(b, r, c, <<dr, dc>>, k,
                     {PieceOf("B", by_side), PieceOf("Q", by_side)})
    \/ \E d \in {<<-1, 0>>, <<1, 0>>, <<0, -1>>, <<0, 1>>}, k \in 1..(BOARD_SIZE - 1) :
          FirstOnRay(b, r, c, d, k,
                     {PieceOf("R", by_side), PieceOf("Q", by_side)})
    \/ \E dr \in {-1, 0, 1}, dc \in {-1, 0, 1} :
          /\ <<dr, dc>> # <<0, 0>>
          /\ in_bounds(r + dr, c + dc)
          /\ At(b, r + dr, c + dc) = PieceOf("K", by_side)

\* C1: after each move that generate_legal_moves returns for a side, the
\* opponent has no pseudo-legal move onto the square of that side's king
\* (stated for the call of generate_legal_moves that ends a frame; fails)
C1_LegalMoveLeavesKingSafe ==
    op = "frame_end" =>
        \A i \in 1..Len(res.legal_any) :
            LET nb == MakeMove(board, res.legal_any[i])
                k == king_position(nb, arg[1])
                replies == generate_pseudo_legal_moves(nb, Opponent(arg[1]))
            IN  HasKing(nb, arg[1]) =>
                    \A j \in 1..Len(replies) : <<replies[j][3], replies[j][4]>> # k

\* C2: in every position of a game played through the game loop the board
\* holds exactly one "K" and exactly one "k" (fails)
C2_OneKingEach == CountOf(board, "K") = 1 /\ CountOf(board, "k") = 1

\* C3: is_square_attacked(board, r, c, by_side) is true iff some piece of
\* by_side attacks (r, c) under the rules of attack (fails)
C3_AttackedIffAttacks ==
    op = "is_square_attacked" => (res <=> Attacks(board, arg[1], arg[2], arg[3]))

\* C4: after make_move the destination holds a queen of the mover's colour if
\* the moved piece is a White pawn arriving on row 0 or a Black pawn arriving
\* on row 7, and the moved piece unchanged in every other case (fails)
C4_PromotionOnFarthestRank ==
    op = "make_move" =>
        LET piece == At(board, arg[1], arg[2])
            placed == At(Deref(heap, res), arg[3], arg[4])
        IN  placed = IF piece = "P" /\ arg[3] = 0 THEN "Q"
                     ELSE IF piece = "p" /\ arg[3] = BOARD_SIZE - 1 THEN "q"
                     ELSE piece

\* C5: make_move leaves its input board as it was, and the board it returns
\* differs from the input at most on the origin, which is empty unless it is
\* the destination too, and on the destination; the call of
\* generate_legal_moves leaves the caller's board as it was
C5_MakeMoveFrame ==
    /\ op = "make_move" =>
          /\ Deref(heap, InputRef) = board
          /\ \A sq \in Squares :
                sq \notin {<<arg[1], arg[2]>>, <<arg[3], arg[4]>>} =>
                    At(Deref(heap, res), sq[1], sq[2]) = At(board, sq[1], sq[2])
          /\ <<arg[1], arg[2]>> # <<arg[3], arg[4]>> =>
                At(Deref(heap, res), arg[1], arg[2]) = "."
    /\ op = "frame_end" => Deref(heap, InputRef) = board

\* a capture was made: the returned board differs from the input on both squares
C5_Witness ==
    /\ op = "make_move"
    /\ At(board, arg[3], arg[4]) # "."
    /\ <<arg[1], arg[2]>> # <<arg[3], arg[4]>>
    /\ At(Deref(heap, res), arg[3], arg[4]) = At(board, arg[1], arg[2])
    /\ At(Deref(heap, res), arg[1], arg[2]) = "."

\* the moves of the starting position for a side, by kind
PawnSteps(moves, b, n) ==
    {i \in 1..Len(moves) :
        /\ upper(At(b, moves[i][1], moves[i][2])) = "P"
        /\ moves[i][2] = moves[i][4]
        /\ moves[i][3] - moves[i][1] \in {n, -n}}

KnightSteps(moves, b) ==
    {i \in 1..Len(moves) : upper(At(b, moves[i][1], moves[i][2])) = "N"}

TwentyMoves(b, side) ==
    LET moves == LegalMoves(b, side)
    IN  /\ Len(moves) = 20
        /\ Cardinality(PawnSteps(moves, b, 1)) = 8
        /\ Cardinality(PawnSteps(moves, b, 2)) = 8
        /\ Cardinality(KnightSteps(moves, b)) = 4
        /\ \A i \in 1..Len(moves) : side_of(At(b, moves[i][1], moves[i][2])) = side

\* C6: parse_fen of the starting position string gives side White and a board
\* on which generate_legal_moves returns exactly 20 moves for White (8 single
\* pawn pushes, 8 double pawn pushes, 4 knight moves) and 20 for Black
C6_StartHasTwentyMoves ==
    (op = "parse_fen" /\ fen = START_FEN) =>
        /\ res.status = "ok"
        /\ res.to_move = "w"
        /\ TwentyMoves(res.board, "w")
        /\ TwentyMoves(res.board, "b")

C6_Witness ==
    /\ op = "parse_fen"
    /\ fen = START_FEN
    /\ res.status = "ok"
    /\ CountOf(res.board, ".") = 32

\* C7: on a board where a side has no king, in_check is true for that side,
\* generate_legal_moves returns no move, and the frame's message is Checkmate
C7_NoKingIsCheckmate ==
    (op = "frame_end" /\ ~HasKing(board, arg[1])) =>
        /\ in_check(board, arg[1])
        /\ res.legal_any = <<>>
        /\ res.msg = "Checkmate"

\* the side without a king has pieces that could move
C7_Witness ==
    /\ op = "frame_end"
    /\ ~HasKing(board, arg[1])
    /\ generate_pseudo_legal_moves(board, arg[1]) # <<>>
    /\ res.msg = "Checkmate"

\* the characters a rank descriptor may hold, and the columns a rank fills
RankLetters == Pieces \cup {"1", "2", "3", "4", "5", "6", "7", "8"}

RECURSIVE RankWidth(_)
RankWidth(row) ==
    IF row = <<>> THEN 0
    ELSE (IF isdigit(Head(row)) THEN int(Head(row)) ELSE 1) + RankWidth(Tail(row))

Malformed(f) ==
    LET fields == split(f)
        ranks == SplitSep(fields[1], "/")
    IN  \/ Len(fields) = 0
        \/ Len(ranks) # BOARD_SIZE
        \/ \E i \in 1..Len(ranks) :
              \/ RankWidth(ranks[i]) # BOARD_SIZE
              \/ \E j \in 1..Len(ranks[i]) : ranks[i][j] \notin RankLetters

RaysOf(piece) ==
    (IF upper(piece) \in {"B", "Q"}
     THEN {<<-1, -1>>, <<-1, 1>>, <<1, -1>>, <<1, 1>>} ELSE {})
    \cup (IF upper(piece) \in {"R", "Q"}
          THEN {<<-1, 0>>, <<1, 0>>, <<0, -1>>, <<0, 1>>} ELSE {})

Sliders(b, side) ==
    {sq \in Squares : /\ upper(At(b, sq[1], sq[2])) \in {"B", "R", "Q"}
                      /\ side_of(At(b, sq[1], sq[2])) = side}

\* C9: along each ray of a bishop, rook or queen of the side,
\* generate_pseudo_legal_moves produces every empty square before the first
\* occupied square, the first occupied square iff it holds an opposing piece,
\* and no square beyond it
C9_RaysStopAtFirstPiece ==
    op = "generate_pseudo_legal_moves" =>
        \A sq \in Sliders(board, arg[1]) :
            \A d \in RaysOf(At(board, sq[1], sq[2])) :
                \A k \in 1..(BOARD_SIZE - 1) :
                    LET tr == sq[1] + k * d[1]
                        tc == sq[2] + k * d[2]
                    IN  in_bounds(tr, tc) =>
                          ( (<<sq[1], sq[2], tr, tc>> \in Range(res))
                            <=> /\ \A j \in 1..(k - 1) :
                                       At(board, sq[1] + j * d[1], sq[2] + j * d[2]) = "."
                                /\ \/ At(board, tr, tc) = "."
                                   \/ side_of(At(board, tr, tc)) = Opponent(arg[1]) )

\* a ray with an empty square, then an opposing piece that is captured, then
\* a square beyond it
C9_Witness ==
    /\ op = "generate_pseudo_legal_moves"
    /\ \E sq \in Sliders(board, arg[1]) :
          \E d \in RaysOf(At(board, sq[1], sq[2])) :
              /\ in_bounds(sq[1] + 3 * d[1], sq[2] + 3 * d[2])
              /\ At(board, sq[1] + d[1], sq[2] + d[2]) = "."
              /\ side_of(At(board, sq[1] + 2 * d[1], sq[2] + 2 * d[2])) = Opponent(arg[1])
              /\ <<sq[1], sq[2], sq[1] + 2 * d[1], sq[2] + 2 * d[2]>> \in Range(res)

\* C10: board and to_move change only by a move that generate_legal_moves
\* returns for the current board and side, made from the selected square, with
\* to_move flipped in the same step, or by the reset to the starting position
\* with White to move; every other step leaves both as they are
C10_OnlyLegalMoveOrReset ==
    [][ (board' # board \/ to_move' # to_move) =>
          \/ /\ board' = Start.board
             /\ to_move' = "w"
          \/ /\ to_move' = Opponent(to_move)
             /\ \E mv \in Range(LegalMoves(board, to_move)) :
                   /\ <<mv[1], mv[2]>> = ui.selected
                   /\ board' = MakeMove(board, mv) ]_vars

\* two moves were applied by releases, and it is White's turn again
C10_Witness ==
    /\ ply = 2
    /\ to_move = "w"
    /\ board # Start.board
    /\ ui.selected = NoSquare

====
